---- MODULE Spec2Model ----
(***************************************************************************)
(* The fetch-data pipeline of Codediff-ocr (src/app/cli/fetch_data.py):    *)
(* one producer process that loads the ledger meta.jsonl and enumerates    *)
(* the judge listings, num_workers worker processes that each drive one    *)
(* browser session, and the aggregation loop of the main process that      *)
(* appends the results to meta.jsonl.  The processes talk through two      *)
(* multiprocessing queues.                                                 *)
(***************************************************************************)
EXTENDS Integers, Sequences, FiniteSets, Bags, TLC

\* ------------------------------------------------------------------ bounds
\* RESTART_LOOPS is 100 in the source (fetch_data.py:27) and page_delta is
\* 100 (loj.py:101); both are scaled down so that a session refresh and a
\* second listing page happen within a handful of tasks.
RESTART_LOOPS == 2
page_delta == 1
MaxWorkers == 2
MaxRuns == 2
MaxFaults == 1

\* The listings of Luogu and AcCoding go through pages of PerPage entries
\* (the site's choice), the sites hold at most MaxEntries problems of a
\* kind, and page numbers are told apart up to MaxPage.
PerPage == 1
MaxEntries == 2
MaxPage == 4

\* retry counts handed to request_retry
AtcoderRetries == 10
CodeforcesRetries == 10
LojRetries == 5
LuoguRetries == 5
AccodingRetries == 5

\* ------------------------------------------------------------ data model
None == "None"

Judges == <<"atcoder", "codeforces", "loj", "luogu", "accoding">>

Problem(oj, problem_id, contest_id) ==
    [oj |-> oj, problem_id |-> problem_id, contest_id |-> contest_id]

Workers == 1..MaxWorkers

\* The queues carry Python values of several types (a Problem, None, an int,
\* a tuple); here every message carries the type the receiver tests for.
TaskMsg(task) == [kind |-> "Problem", task |-> task]
NoneMsg == [kind |-> "None"]
IntMsg(n) == [kind |-> "int", value |-> n]
ResultMsg(task, image_path, description) ==
    [kind |-> "tuple", task |-> task, image_path |-> image_path,
     description |-> description]

\* the value of a worker's variable problem before its first assignment
NoProblem == [oj |-> None, problem_id |-> None, contest_id |-> None]

\* senders on the report queue: the producer (0) and the workers
Senders == 0..MaxWorkers

VARIABLES
    num_workers,    \* the -j option of fetch_data
    site,           \* what each judge site holds: judge -> sequence of raw entries
    run,            \* number of the current run of the command
    alive,          \* FALSE once the processes of the run have been killed
    meta_exists,    \* does <output>/meta.jsonl exist
    disk,           \* the bytes of meta.jsonl on disk, as a sequence of chunks
    images,         \* the names of the files in <output>/images
    p_pc,           \* producer: "load" | "list" | "sentinels" | "done" | "dead"
    tasks_done,     \* producer: the dedup set
    task_count,     \* producer: tasks enqueued
    p_oj,           \* producer: index into Judges of the judge being listed
    gen,            \* producer: state of the listing generator being iterated
    p_sent,         \* producer: terminate sentinels put so far
    faults,         \* failed requests, launches and receives so far in this run
    task_queue,     \* task channel, FIFO
    report_queue,   \* report channel: for each sender the messages not yet received
    w_pc,           \* worker: "launch" | "get" | "process" | "done" | "off"
    w_loops,        \* worker: iterations of the RESTART_LOOPS loop used on this session
    w_cur,          \* worker: the task in hand
    w_sess,         \* worker: number of sessions launched
    a_pc,           \* aggregator: "loop" | "join" | "done"
    finished_count, \* aggregator: worker-finished sentinels seen
    total,          \* aggregator: total of the progress bar
    completed,      \* aggregator: completed of the progress bar
    f_buf,          \* aggregator: chunks written to f since the disk was last known
    log,            \* bag of log entries of this run
    hist            \* history of the run, for stating properties

vars == <<num_workers, site, run, alive, meta_exists, disk, images, p_pc, tasks_done,
          task_count, p_oj, gen, p_sent, faults, task_queue, report_queue, w_pc,
          w_loops, w_cur, w_sess, a_pc, finished_count,
          total, completed, f_buf, log, hist>>

cfg_vars == <<num_workers, site>>
disk_vars == <<meta_exists, disk, images>>
prod_vars == <<p_pc, tasks_done, task_count, p_oj, gen, p_sent>>
work_vars == <<w_pc, w_loops, w_cur, w_sess>>
agg_vars == <<a_pc, finished_count, total, completed, f_buf>>

\* a log entry: what happened, the judge or problem it names, the worker
LogEntry(what, problem, worker) == [what |-> what, problem |-> problem, worker |-> worker]

Logged(entry) == log (+) SetToBag({entry})

\* ------------------------------------------------------------- the ledger
\* A line json.dumps(record) + '\n' is three chunks of bytes: the first part
\* of the JSON text, the rest of it, and the newline.  The file is written
\* through Python's buffered text I/O, which moves bytes to the disk
\* whenever its buffer fills, at any byte position.
Record(result) ==
    [oj |-> result.task.oj, contest_id |-> result.task.contest_id,
     problem_id |-> result.task.problem_id, image_path |-> result.image_path,
     description |-> result.description]

Chunks(record) == << [rec |-> record, part |-> 1],
                     [rec |-> record, part |-> 2],
                     [rec |-> record, part |-> 3] >>

RECURSIVE SplitLines(_, _)
\* f.readlines(): cut at the newlines; a last line without newline counts
SplitLines(bytes, cur) ==
    IF bytes = <<>> THEN (IF cur = <<>> THEN <<>> ELSE <<cur>>)
    ELSE IF Head(bytes).part = 3
         THEN <<cur>> \o SplitLines(Tail(bytes), <<>>)
         ELSE SplitLines(Tail(bytes), Append(cur, Head(bytes)))

\* json.loads(line) succeeds when the line is one whole JSON object
WellFormed(line) ==
    /\ Len(line) = 2
    /\ line[1].part = 1
    /\ line[2].part = 2
    /\ line[1].rec = line[2].rec

\* RecordKey that leaves the contest out of the key
RecordKey_NoContest(record) == Problem(record.oj, record.problem_id, None)

\* lines 53-57: the member of tasks_done made of a record of the ledger;
\* json keeps strings as strings and None as null
RecordKey(record) == Problem(record.oj, record.problem_id, record.contest_id)

RECURSIVE LoadLines(_, _)
\* the loop of lines 51-57: stops at the first line json.loads rejects and
\* keeps what was added before it
LoadLines(lines, done) ==
    IF lines = <<>> THEN [done |-> done, error |-> FALSE]
    ELSE IF WellFormed(Head(lines))
         THEN LoadLines(Tail(lines), done \cup {RecordKey(Head(lines)[1].rec)})
         ELSE [done |-> done, error |-> TRUE]

\* ReadLedger that takes the first line for a header
ReadLedger_SkipFirst(bytes) ==
    IF SplitLines(bytes, <<>>) = <<>> THEN [done |-> {}, error |-> FALSE]
    ELSE LoadLines(Tail(SplitLines(bytes, <<>>)), {})

ReadLedger(bytes) == LoadLines(SplitLines(bytes, <<>>), {})

\* ---------------------------------------------------------- the listings
\* request_retry(count, ...): the request is tried count times; fails is the
\* number of attempts that raise before one succeeds
request_retry(count, fails) == IF fails < count THEN "resp" ELSE None

Min(a, b) == IF a < b THEN a ELSE b

\* the page of the problem set the LOJ API returns for skipCount, takeCount
QueryProblemSet(entries, skipCount, takeCount) ==
    SubSeq(entries, skipCount + 1, Min(Len(entries), skipCount + takeCount))

\* what each listing yields for one raw entry <<a, b>> of the site
AtcoderItem(e) == <<e[1], e[2]>>
CodeforcesItem(e) == <<e[2] \o e[1], e[2]>>
LojItem(e) == <<e[1], None>>
CollaboratorItem(e) == <<e[1], None>>

\* the identifiers a listing yields for a sequence of raw entries, in order
AtcoderItems(entries) == [i \in 1..Len(entries) |-> AtcoderItem(entries[i])]
CodeforcesItems(entries) == [i \in 1..Len(entries) |-> CodeforcesItem(entries[i])]
LojItems(entries) == [i \in 1..Len(entries) |-> LojItem(entries[i])]
CollaboratorItems(entries) == [i \in 1..Len(entries) |-> CollaboratorItem(entries[i])]

\* the types of problems luogu.fetch_problem_list goes through (line 66)
ProblemTypes == <<"P", "B">>

\* itertools.count(0) has no end.  The pages after MaxPage - 1 are past
\* everything the sites here hold and all answer alike, so the counter is
\* kept up to MaxPage and after it only every other page is told apart.
NextPage(page) == IF page < MaxPage THEN page + 1 ELSE MaxPage - 1

\* the state of a listing generator: type and total_num are the locals
\* problem_type and total_num of luogu.fetch_problem_list
NewGen == [phase |-> "fetch", page |-> 0, items |-> <<>>, after |-> "end",
           type |-> 1, total_num |-> 0]

\* Where the producer stands once the generator g has run on to its next
\* yield, to its end, or to an exception nobody catches.  g.after says what
\* follows the last item of the page: "page" the next page of LOJ, "count"
\* the next page of count(0), "break" the end of the page loop of one type
\* of Luogu, "raise" an exception, "end" the end of the generator.
ResumeGen(oj, g) ==
    IF g.items # <<>>
    THEN [pc |-> "list", oj |-> oj, gen |-> [g EXCEPT !.phase = "yield"]]
    ELSE IF g.after = "page"
    THEN [pc |-> "list", oj |-> oj,
          gen |-> [g EXCEPT !.phase = "fetch", !.page = g.page + page_delta,
                            !.after = "end"]]
    ELSE IF g.after = "count"
    THEN [pc |-> "list", oj |-> oj,
          gen |-> [g EXCEPT !.phase = "fetch", !.page = NextPage(g.page), !.after = "end"]]
    ELSE IF g.after = "break" /\ g.type < Len(ProblemTypes)
    THEN [pc |-> "list", oj |-> oj,
          gen |-> [g EXCEPT !.phase = "fetch", !.page = 0, !.after = "end",
                            !.type = g.type + 1]]
    ELSE IF g.after = "raise"
    THEN [pc |-> "dead", oj |-> oj, gen |-> NewGen]
    ELSE IF oj < Len(Judges)
    THEN [pc |-> "list", oj |-> oj + 1, gen |-> NewGen]
    ELSE [pc |-> "sentinels", oj |-> oj, gen |-> NewGen]

Resume(oj, page, items, after) ==
    ResumeGen(oj, [gen EXCEPT !.page = page, !.items = items, !.after = after])

Listing(oj_name) ==
    /\ alive
    /\ p_pc = "list"
    /\ Judges[p_oj] = oj_name
    /\ gen.phase = "fetch"

Resumed(r) ==
    /\ p_pc' = r.pc
    /\ p_oj' = r.oj
    /\ gen' = r.gen

\* atcoder.fetch_problem_list up to its first yield.  outcome: "none" the
\* request fails AtcoderRetries times, "ok", "bad" resp.json() or an entry
\* of it raises.
AtcoderFetch(outcome) ==
    /\ Listing("atcoder")
    /\ LET fails == IF outcome = "none" THEN AtcoderRetries ELSE 0
           resp == request_retry(AtcoderRetries, fails)
       IN  IF resp = None
           THEN /\ faults < MaxFaults
                /\ faults' = faults + 1
                /\ log' = Logged(LogEntry("listing", Problem("atcoder", None, None), 0))
                /\ hist' = [hist EXCEPT !.failed = @ \cup {"atcoder"}]
                /\ Resumed(Resume(p_oj, 0, <<>>, "end"))
           ELSE IF outcome = "bad"
           THEN /\ faults < MaxFaults
                /\ faults' = faults + 1
                /\ hist' = [hist EXCEPT !.failed = @ \cup {"atcoder"}]
                /\ Resumed(Resume(p_oj, 0, <<>>, "raise"))
                /\ UNCHANGED log
           ELSE /\ Resumed(Resume(p_oj, 0, AtcoderItems(site["atcoder"]), "end"))
                /\ UNCHANGED <<faults, log, hist>>
    /\ UNCHANGED <<cfg_vars, run, alive, disk_vars, tasks_done, task_count, p_sent,
                   task_queue, report_queue, work_vars, agg_vars>>

\* codeforces.fetch_problem_list up to its first yield
CodeforcesFetch(outcome) ==
    /\ Listing("codeforces")
    /\ LET fails == IF outcome = "none" THEN CodeforcesRetries ELSE 0
           resp == request_retry(CodeforcesRetries, fails)
       IN  IF resp = None
           THEN /\ faults < MaxFaults
                /\ faults' = faults + 1
                /\ log' = Logged(LogEntry("listing", Problem("codeforces", None, None), 0))
                /\ hist' = [hist EXCEPT !.failed = @ \cup {"codeforces"}]
                /\ Resumed(Resume(p_oj, 0, <<>>, "end"))
           ELSE IF outcome = "bad"
           THEN /\ faults < MaxFaults
                /\ faults' = faults + 1
                /\ hist' = [hist EXCEPT !.failed = @ \cup {"codeforces"}]
                /\ Resumed(Resume(p_oj, 0, <<>>, "raise"))
                /\ UNCHANGED log
           ELSE /\ Resumed(Resume(p_oj, 0, CodeforcesItems(site["codeforces"]), "end"))
                /\ UNCHANGED <<faults, log, hist>>
    /\ UNCHANGED <<cfg_vars, run, alive, disk_vars, tasks_done, task_count, p_sent,
                   task_queue, report_queue, work_vars, agg_vars>>

\* one turn of the page loop of loj.fetch_problem_list
LojFetch(outcome) ==
    /\ Listing("loj")
    /\ LET fails == IF outcome = "none" THEN LojRetries ELSE 0
           resp == request_retry(LojRetries, fails)
           info_list == QueryProblemSet(site["loj"], gen.page, page_delta)
       IN  IF resp = None
           THEN /\ faults < MaxFaults
                /\ faults' = faults + 1
                /\ log' = Logged(LogEntry("listing", Problem("loj", None, None), 0))
                /\ hist' = [hist EXCEPT !.failed = @ \cup {"loj"}]
                /\ Resumed(Resume(p_oj, gen.page, <<>>, "page"))
           ELSE IF outcome = "bad"
           THEN /\ faults < MaxFaults
                /\ faults' = faults + 1
                /\ log' = Logged(LogEntry("listing data", Problem("loj", None, None), 0))
                /\ hist' = [hist EXCEPT !.failed = @ \cup {"loj"}]
                /\ Resumed(Resume(p_oj, gen.page, <<>>, "page"))
           ELSE IF Len(info_list) = 0
           THEN /\ Resumed(Resume(p_oj, gen.page, <<>>, "end"))
                /\ UNCHANGED <<faults, log, hist>>
           ELSE /\ Resumed(Resume(p_oj, gen.page, LojItems(info_list), "page"))
                /\ UNCHANGED <<faults, log, hist>>
    /\ UNCHANGED <<cfg_vars, run, alive, disk_vars, tasks_done, task_count, p_sent,
                   task_queue, report_queue, work_vars, agg_vars>>

\* The listings of luogu and accoding: the modules app.crawlers.luogu and
\* app.crawlers.accoding that fetch_problem_list imports are not part of the
\* sources at hand.  They are lazy sequences that may fail part-way; a
\* failure is logged and ends that listing only.  k entries are yielded
\* before the failure.
CollaboratorFetch(oj_name, failing, k) ==
    /\ Listing(oj_name)
    /\ oj_name \in {"luogu", "accoding"}
    /\ IF failing
       THEN /\ faults < MaxFaults
            /\ k \in 0..Len(site[oj_name])
            /\ faults' = faults + 1
            /\ log' = Logged(LogEntry("listing", Problem(oj_name, None, None), 0))
            /\ hist' = [hist EXCEPT !.failed = @ \cup {oj_name}]
            /\ Resumed(Resume(p_oj, 0,
                              CollaboratorItems(SubSeq(site[oj_name], 1, k)), "end"))
       ELSE /\ k = Len(site[oj_name])
            /\ Resumed(Resume(p_oj, 0, CollaboratorItems(site[oj_name]), "end"))
            /\ UNCHANGED <<faults, log, hist>>
    /\ UNCHANGED <<cfg_vars, run, alive, disk_vars, tasks_done, task_count, p_sent,
                   task_queue, report_queue, work_vars, agg_vars>>

\* The package crawlers holds the listings of Luogu and AcCoding as the
\* repository has them (src/crawlers/luogu.py, src/crawlers/accoding.py).
\* A raw entry of Luogu is <<pid, type>>, one of AcCoding is the first
\* segment of the href of a row's link and the text of the link.
LuoguItem(e) == <<e[1], None>>
AccodingItem(e) == <<e[1], None>>

LuoguItems(entries) == [i \in 1..Len(entries) |-> LuoguItem(entries[i])]

\* lines 114-119: rows whose link reads '0' are left out
AccodingItems(entries) ==
    LET kept == SelectSeq(entries, LAMBDA e : e[2] # "0")
    IN  [i \in 1..Len(kept) |-> AccodingItem(kept[i])]

\* the entries a site shows on one page of its list, pages counted from 0
PageOf(entries, page, perPage) ==
    SubSeq(entries, page * perPage + 1, Min(Len(entries), (page + 1) * perPage))

\* one turn of the page loop of luogu.fetch_problem_list (lines 69-90);
\* data['count'] is the number of problems of the type asked for
LuoguFetch(outcome) ==
    /\ Listing("luogu")
    /\ LET fails == IF outcome = "none" THEN LuoguRetries ELSE 0
           resp == request_retry(LuoguRetries, fails)
           of_type == SelectSeq(site["luogu"], LAMBDA e : e[2] = ProblemTypes[gen.type])
           data == [result |-> PageOf(of_type, gen.page, PerPage),
                    perPage |-> PerPage, count |-> Len(of_type)]
       IN  IF resp = None
           THEN /\ faults < MaxFaults
                /\ faults' = faults + 1
                /\ log' = Logged(LogEntry("listing", Problem("luogu", None, None), 0))
                /\ hist' = [hist EXCEPT !.failed = @ \cup {"luogu"}]
                /\ Resumed(ResumeGen(p_oj, [gen EXCEPT !.items = <<>>, !.after = "count"]))
           ELSE IF outcome = "bad"
           THEN /\ faults < MaxFaults
                /\ faults' = faults + 1
                /\ hist' = [hist EXCEPT !.failed = @ \cup {"luogu"}]
                /\ Resumed(ResumeGen(p_oj, [gen EXCEPT !.items = <<>>, !.after = "raise"]))
                /\ UNCHANGED log
           ELSE /\ Resumed(ResumeGen(p_oj,
                       [gen EXCEPT !.items = LuoguItems(data.result),
                                   !.total_num = gen.total_num + data.perPage,
                                   !.after = IF gen.total_num + data.perPage >= data.count
                                             THEN "break" ELSE "count"]))
                /\ UNCHANGED <<faults, log, hist>>
    /\ UNCHANGED <<cfg_vars, run, alive, disk_vars, tasks_done, task_count, p_sent,
                   task_queue, report_queue, work_vars, agg_vars>>

\* one turn of the page loop of accoding.fetch_problem_list (lines 101-119)
AccodingFetch(outcome) ==
    /\ Listing("accoding")
    /\ LET fails == IF outcome = "none" THEN AccodingRetries ELSE 0
           resp == request_retry(AccodingRetries, fails)
           rows == PageOf(site["accoding"], gen.page, PerPage)
       IN  IF resp = None
           THEN /\ faults < MaxFaults
                /\ faults' = faults + 1
                /\ log' = Logged(LogEntry("listing", Problem("accoding", None, None), 0))
                /\ hist' = [hist EXCEPT !.failed = @ \cup {"accoding"}]
                /\ Resumed(ResumeGen(p_oj, [gen EXCEPT !.items = <<>>, !.after = "count"]))
           ELSE /\ Resumed(ResumeGen(p_oj, [gen EXCEPT !.items = AccodingItems(rows),
                                                       !.after = "count"]))
                /\ UNCHANGED <<faults, log, hist>>
    /\ UNCHANGED <<cfg_vars, run, alive, disk_vars, tasks_done, task_count, p_sent,
                   task_queue, report_queue, work_vars, agg_vars>>

\* ------------------------------------------------------------ the producer
\* lines 48-61: build tasks_done from meta.jsonl
ProducerLoad ==
    /\ alive
    /\ p_pc = "load"
    /\ IF ~meta_exists
       THEN /\ meta_exists' = TRUE
            /\ tasks_done' = {}
            /\ UNCHANGED log
       ELSE /\ tasks_done' = ReadLedger(disk).done
            /\ log' = IF ReadLedger(disk).error THEN Logged(LogEntry("meta.jsonl", NoProblem, 0)) ELSE log
            /\ UNCHANGED meta_exists
    /\ p_pc' = "list"
    /\ UNCHANGED <<cfg_vars, run, alive, disk, images, hist, task_count, p_oj, gen, p_sent, faults,
                   task_queue, report_queue, work_vars, agg_vars>>

\* ProducerTask that adds the task it puts to tasks_done
ProducerTask_Remember ==
    /\ alive
    /\ p_pc = "list"
    /\ gen.phase = "yield"
    /\ LET item == Head(gen.items)
           task == Problem(Judges[p_oj], item[1], item[2])
       IN  /\ IF task \notin tasks_done
              THEN /\ task_queue' = Append(task_queue, TaskMsg(task))
                   /\ report_queue' = [report_queue EXCEPT ![0] = Append(@, IntMsg(1))]
                   /\ task_count' = task_count + 1
                   /\ tasks_done' = tasks_done \cup {task}
                   /\ hist' = [hist EXCEPT !.put = Append(@, task)]
              ELSE UNCHANGED <<task_queue, report_queue, task_count, tasks_done, hist>>
           /\ Resumed(Resume(p_oj, gen.page, Tail(gen.items), gen.after))
    /\ UNCHANGED <<cfg_vars, run, alive, disk_vars, p_sent, faults,
                   work_vars, agg_vars, log>>

\* lines 67-73: one identifier of the listing
ProducerTask ==
    /\ alive
    /\ p_pc = "list"
    /\ gen.phase = "yield"
    /\ LET item == Head(gen.items)
           task == Problem(Judges[p_oj], item[1], item[2])
       IN  /\ IF task \notin tasks_done
              THEN /\ task_queue' = Append(task_queue, TaskMsg(task))
                   /\ report_queue' = [report_queue EXCEPT ![0] = Append(@, IntMsg(1))]
                   /\ task_count' = task_count + 1
                   /\ hist' = [hist EXCEPT !.put = Append(@, task)]
              ELSE UNCHANGED <<task_queue, report_queue, task_count, hist>>
           /\ Resumed(Resume(p_oj, gen.page, Tail(gen.items), gen.after))
    /\ UNCHANGED <<cfg_vars, run, alive, disk_vars, tasks_done, p_sent, faults,
                   work_vars, agg_vars, log>>

\* ProducerSentinel with one sentinel too many
ProducerSentinel_Extra ==
    /\ alive
    /\ p_pc = "sentinels"
    /\ IF p_sent <= num_workers
       THEN /\ task_queue' = Append(task_queue, NoneMsg)
            /\ p_sent' = p_sent + 1
            /\ hist' = [hist EXCEPT !.put = Append(@, NoProblem)]
            /\ UNCHANGED p_pc
       ELSE /\ p_pc' = "done"
            /\ UNCHANGED <<task_queue, p_sent, hist>>
    /\ UNCHANGED <<cfg_vars, run, alive, disk_vars, tasks_done, task_count, p_oj, gen,
                   faults, report_queue, work_vars, agg_vars, log>>

\* lines 75-77: one terminate sentinel per worker
ProducerSentinel ==
    /\ alive
    /\ p_pc = "sentinels"
    /\ IF p_sent < num_workers
       THEN /\ task_queue' = Append(task_queue, NoneMsg)
            /\ p_sent' = p_sent + 1
            /\ hist' = [hist EXCEPT !.put = Append(@, NoProblem)]
            /\ UNCHANGED p_pc
       ELSE /\ p_pc' = "done"
            /\ UNCHANGED <<task_queue, p_sent, hist>>
    /\ UNCHANGED <<cfg_vars, run, alive, disk_vars, tasks_done, task_count, p_oj, gen,
                   faults, report_queue, work_vars, agg_vars, log>>

\* ------------------------------------------------------------- the workers
\* The image is saved as <uuid1>.png, a name no other call yields: the run,
\* the worker, its session and the turn of the session stand for the uuid.
\* The description is the normalised statement of the problem.
ImagePath_PerWorker(w) == [run |-> run, worker |-> w, session |-> 0, turn |-> 0]
ImagePath(w) == [run |-> run, worker |-> w, session |-> w_sess[w], turn |-> w_loops[w]]
format_markdown(task) == "statement of " \o task.problem_id

\* the end of one turn of "for _ in range(RESTART_LOOPS)": after the last
\* turn the session is dropped and the outer loop launches a new one
NextTurn_Late(w) ==
    /\ w_loops' = [w_loops EXCEPT ![w] = @ + 1]
    /\ w_pc' = [w_pc EXCEPT ![w] = IF w_loops[w] + 1 > RESTART_LOOPS
                                   THEN "launch" ELSE "get"]

NextTurn(w) ==
    /\ w_loops' = [w_loops EXCEPT ![w] = @ + 1]
    /\ w_pc' = [w_pc EXCEPT ![w] = IF w_loops[w] + 1 >= RESTART_LOOPS
                                   THEN "launch" ELSE "get"]

\* WorkerLaunch that returns when the launch fails
WorkerLaunch_GiveUp(w, ok) ==
    /\ alive
    /\ w_pc[w] = "launch"
    /\ IF ok
       THEN /\ w_pc' = [w_pc EXCEPT ![w] = "get"]
            /\ w_loops' = [w_loops EXCEPT ![w] = 0]
            /\ w_sess' = [w_sess EXCEPT ![w] = @ + 1]
            /\ hist' = [hist EXCEPT !.ok_sess = [@ EXCEPT ![w] = 0]]
            /\ UNCHANGED <<faults, log>>
       ELSE /\ faults < MaxFaults
            /\ faults' = faults + 1
            /\ log' = Logged(LogEntry("launch", NoProblem, w))
            /\ w_pc' = [w_pc EXCEPT ![w] = "done"]
            /\ UNCHANGED <<w_loops, w_sess, hist>>
    /\ UNCHANGED <<cfg_vars, run, alive, disk_vars, prod_vars, task_queue, report_queue,
                   w_cur, agg_vars>>

\* lines 115-134: launch the browser and open a page
WorkerLaunch(w, ok) ==
    /\ alive
    /\ w_pc[w] = "launch"
    /\ IF ok
       THEN /\ w_pc' = [w_pc EXCEPT ![w] = "get"]
            /\ w_loops' = [w_loops EXCEPT ![w] = 0]
            /\ w_sess' = [w_sess EXCEPT ![w] = @ + 1]
            /\ hist' = [hist EXCEPT !.ok_sess = [@ EXCEPT ![w] = 0]]
            /\ UNCHANGED <<faults, log>>
       ELSE /\ faults < MaxFaults
            /\ faults' = faults + 1
            /\ log' = Logged(LogEntry("launch", NoProblem, w))
            /\ UNCHANGED <<w_pc, w_loops, w_sess, hist>>
    /\ UNCHANGED <<cfg_vars, run, alive, disk_vars, prod_vars, task_queue, report_queue,
                   w_cur, agg_vars>>

\* WorkerGet that goes on receiving after the terminate sentinel
WorkerGet_NoReturn(w) ==
    /\ alive
    /\ w_pc[w] = "get"
    /\ task_queue # <<>>
    /\ task_queue' = Tail(task_queue)
    /\ IF Head(task_queue).kind = "None"
       THEN /\ report_queue' = [report_queue EXCEPT ![w] = Append(@, NoneMsg)]
            /\ hist' = [hist EXCEPT !.got_none = [@ EXCEPT ![w] = @ + 1],
                                    !.put_none = [@ EXCEPT ![w] = @ + 1],
                                    !.got = Append(@, w)]
            /\ UNCHANGED <<w_cur, w_pc>>
       ELSE /\ w_cur' = [w_cur EXCEPT ![w] = Head(task_queue).task]
            /\ w_pc' = [w_pc EXCEPT ![w] = "process"]
            /\ hist' = [hist EXCEPT !.got = Append(@, w)]
            /\ UNCHANGED report_queue
    /\ UNCHANGED <<cfg_vars, run, alive, disk_vars, prod_vars, w_loops, w_sess,
                   faults, agg_vars, log>>

\* WorkerGet that leaves a task it has received at the head of the queue
WorkerGet_Peek(w) ==
    /\ alive
    /\ w_pc[w] = "get"
    /\ task_queue # <<>>
    /\ IF Head(task_queue).kind = "None"
       THEN /\ task_queue' = Tail(task_queue)
            /\ report_queue' = [report_queue EXCEPT ![w] = Append(@, NoneMsg)]
            /\ w_pc' = [w_pc EXCEPT ![w] = "done"]
            /\ hist' = [hist EXCEPT !.got_none = [@ EXCEPT ![w] = @ + 1],
                                    !.put_none = [@ EXCEPT ![w] = @ + 1],
                                    !.got = Append(@, w)]
            /\ UNCHANGED w_cur
       ELSE /\ w_cur' = [w_cur EXCEPT ![w] = Head(task_queue).task]
            /\ w_pc' = [w_pc EXCEPT ![w] = "process"]
            /\ hist' = [hist EXCEPT !.got = Append(@, w)]
            /\ UNCHANGED <<report_queue, task_queue>>
    /\ UNCHANGED <<cfg_vars, run, alive, disk_vars, prod_vars, w_loops, w_sess,
                   faults, agg_vars, log>>

\* lines 138-143: task_queue.get() returns
WorkerGet(w) ==
    /\ alive
    /\ w_pc[w] = "get"
    /\ task_queue # <<>>
    /\ task_queue' = Tail(task_queue)
    /\ IF Head(task_queue).kind = "None"
       THEN /\ report_queue' = [report_queue EXCEPT ![w] = Append(@, NoneMsg)]
            /\ w_pc' = [w_pc EXCEPT ![w] = "done"]
            /\ hist' = [hist EXCEPT !.got_none = [@ EXCEPT ![w] = @ + 1],
                                    !.put_none = [@ EXCEPT ![w] = @ + 1],
                                    !.got = Append(@, w)]
            /\ UNCHANGED w_cur
       ELSE /\ w_cur' = [w_cur EXCEPT ![w] = Head(task_queue).task]
            /\ w_pc' = [w_pc EXCEPT ![w] = "process"]
            /\ hist' = [hist EXCEPT !.got = Append(@, w)]
            /\ UNCHANGED report_queue
    /\ UNCHANGED <<cfg_vars, run, alive, disk_vars, prod_vars, w_loops, w_sess,
                   faults, agg_vars, log>>

\* WorkerGetError in which the receive that raises has taken a message
WorkerGetError_Drop(w) ==
    /\ alive
    /\ w_pc[w] = "get"
    /\ faults < MaxFaults
    /\ faults' = faults + 1
    /\ log' = Logged(LogEntry("get", NoProblem, w))
    /\ task_queue' = IF task_queue = <<>> THEN task_queue ELSE Tail(task_queue)
    /\ NextTurn(w)
    /\ UNCHANGED <<cfg_vars, run, alive, disk_vars, prod_vars, report_queue,
                   w_cur, w_sess, agg_vars, hist>>

\* lines 144-147: task_queue.get() raises
WorkerGetError(w) ==
    /\ alive
    /\ w_pc[w] = "get"
    /\ faults < MaxFaults
    /\ faults' = faults + 1
    /\ log' = Logged(LogEntry("get", NoProblem, w))
    /\ NextTurn(w)
    /\ UNCHANGED <<cfg_vars, run, alive, disk_vars, prod_vars, task_queue, report_queue,
                   w_cur, w_sess, agg_vars, hist>>

\* WorkerProcess in which a failed extraction ends the worker
WorkerProcess_Dies(w, ok) ==
    /\ alive
    /\ w_pc[w] = "process"
    /\ IF ok
       THEN /\ report_queue' = [report_queue EXCEPT ![w] =
                                   Append(@, ResultMsg(w_cur[w], ImagePath(w),
                                                       format_markdown(w_cur[w])))]
            /\ hist' = [hist EXCEPT !.ok_sess = [@ EXCEPT ![w] = @ + 1]]
            /\ NextTurn(w)
            /\ UNCHANGED log
       ELSE /\ log' = Logged(LogEntry("process", w_cur[w], w))
            /\ w_pc' = [w_pc EXCEPT ![w] = "done"]
            /\ UNCHANGED <<report_queue, hist, w_loops>>
    /\ images' = IF ok THEN images \cup {ImagePath(w)} ELSE images
    /\ w_cur' = [w_cur EXCEPT ![w] = NoProblem]
    /\ UNCHANGED <<cfg_vars, run, alive, meta_exists, disk, prod_vars, task_queue, w_sess,
                   faults, agg_vars>>

\* WorkerProcess that does not count a failed extraction as a turn
WorkerProcess_FailFree(w, ok) ==
    /\ alive
    /\ w_pc[w] = "process"
    /\ IF ok
       THEN /\ report_queue' = [report_queue EXCEPT ![w] =
                                   Append(@, ResultMsg(w_cur[w], ImagePath(w),
                                                       format_markdown(w_cur[w])))]
            /\ hist' = [hist EXCEPT !.ok_sess = [@ EXCEPT ![w] = @ + 1]]
            /\ NextTurn(w)
            /\ UNCHANGED log
       ELSE /\ log' = Logged(LogEntry("process", w_cur[w], w))
            /\ w_pc' = [w_pc EXCEPT ![w] = "get"]
            /\ UNCHANGED <<report_queue, hist, w_loops>>
    /\ images' = IF ok THEN images \cup {ImagePath(w)} ELSE images
    /\ w_cur' = [w_cur EXCEPT ![w] = NoProblem]
    /\ UNCHANGED <<cfg_vars, run, alive, meta_exists, disk, prod_vars, task_queue, w_sess,
                   faults, agg_vars>>

\* WorkerProcess that puts a task whose extraction failed back on the queue
WorkerProcess_Requeue(w, ok) ==
    /\ alive
    /\ w_pc[w] = "process"
    /\ IF ok
       THEN /\ report_queue' = [report_queue EXCEPT ![w] =
                                   Append(@, ResultMsg(w_cur[w], ImagePath(w),
                                                       format_markdown(w_cur[w])))]
            /\ hist' = [hist EXCEPT !.ok_sess = [@ EXCEPT ![w] = @ + 1]]
            /\ UNCHANGED <<log, task_queue>>
       ELSE /\ log' = Logged(LogEntry("process", w_cur[w], w))
            /\ task_queue' = Append(task_queue, TaskMsg(w_cur[w]))
            /\ UNCHANGED <<report_queue, hist>>
    /\ images' = IF ok THEN images \cup {ImagePath(w)} ELSE images
    /\ w_cur' = [w_cur EXCEPT ![w] = NoProblem]
    /\ NextTurn(w)
    /\ UNCHANGED <<cfg_vars, run, alive, meta_exists, disk, prod_vars, w_sess,
                   faults, agg_vars>>

\* lines 148-151 and _process_one: ok says whether crawl_problem and the
\* post-processing get through; then the image is saved (line 109) and the
\* record that names it is put (line 110)
WorkerProcess(w, ok) ==
    /\ alive
    /\ w_pc[w] = "process"
    /\ IF ok
       THEN /\ report_queue' = [report_queue EXCEPT ![w] =
                                   Append(@, ResultMsg(w_cur[w], ImagePath(w),
                                                       format_markdown(w_cur[w])))]
            /\ hist' = [hist EXCEPT !.ok_sess = [@ EXCEPT ![w] = @ + 1]]
            /\ UNCHANGED log
       ELSE /\ log' = Logged(LogEntry("process", w_cur[w], w))
            /\ UNCHANGED <<report_queue, hist>>
    /\ images' = IF ok THEN images \cup {ImagePath(w)} ELSE images
    /\ w_cur' = [w_cur EXCEPT ![w] = NoProblem]
    /\ NextTurn(w)
    /\ UNCHANGED <<cfg_vars, run, alive, meta_exists, disk, prod_vars, task_queue, w_sess,
                   faults, agg_vars>>

\* ---------------------------------------------------------- the aggregator
\* line 199: open(meta.jsonl, 'a') creates the file when it is missing
AggOpen ==
    /\ alive
    /\ a_pc = "open"
    /\ meta_exists' = TRUE
    /\ a_pc' = "loop"
    /\ UNCHANGED <<cfg_vars, faults, run, alive, disk, images, prod_vars, task_queue, report_queue,
                   work_vars, finished_count, total, completed, f_buf, log, hist>>

\* AggGet that writes the line of a record before the lines written so far
AggGet_Prepend(sender) ==
    /\ alive
    /\ a_pc = "loop"
    /\ finished_count < num_workers
    /\ report_queue[sender] # <<>>
    /\ report_queue' = [report_queue EXCEPT ![sender] = Tail(@)]
    /\ LET result == Head(report_queue[sender])
       IN  IF result.kind = "None"
           THEN /\ finished_count' = finished_count + 1
                /\ UNCHANGED <<total, completed, f_buf>>
           ELSE IF result.kind = "int"
           THEN /\ total' = total + result.value
                /\ UNCHANGED <<finished_count, completed, f_buf>>
           ELSE /\ f_buf' = Chunks(Record(result)) \o f_buf
                /\ completed' = completed + 1
                /\ UNCHANGED <<finished_count, total>>
    /\ UNCHANGED <<cfg_vars, faults, run, alive, disk_vars, prod_vars, task_queue, work_vars,
                   a_pc, log, hist>>

\* AggGet that counts every message that is not an int as a finished worker
AggGet_Miscount(sender) ==
    /\ alive
    /\ a_pc = "loop"
    /\ finished_count < num_workers
    /\ report_queue[sender] # <<>>
    /\ report_queue' = [report_queue EXCEPT ![sender] = Tail(@)]
    /\ LET result == Head(report_queue[sender])
       IN  IF result.kind = "None"
           THEN /\ finished_count' = finished_count + 1
                /\ UNCHANGED <<total, completed, f_buf>>
           ELSE IF result.kind = "int"
           THEN /\ total' = total + result.value
                /\ UNCHANGED <<finished_count, completed, f_buf>>
           ELSE /\ f_buf' = f_buf \o Chunks(Record(result))
                /\ completed' = completed + 1
                /\ finished_count' = finished_count + 1
                /\ UNCHANGED total
    /\ UNCHANGED <<cfg_vars, faults, run, alive, disk_vars, prod_vars, task_queue, work_vars,
                   a_pc, log, hist>>

\* lines 204-221: one message of the report queue.  Messages of one sender
\* arrive in the order they were put, messages of different senders in any
\* order.  f.write leaves the line in the buffer of f: the io module moves
\* buffered bytes to the disk when it chooses to, at the latest when f is
\* closed, and nothing reads the file in between, so how far the disk has
\* got is drawn when it shows: when the processes are killed.
AggGet(sender) ==
    /\ alive
    /\ a_pc = "loop"
    /\ finished_count < num_workers
    /\ report_queue[sender] # <<>>
    /\ report_queue' = [report_queue EXCEPT ![sender] = Tail(@)]
    /\ LET result == Head(report_queue[sender])
       IN  IF result.kind = "None"
           THEN /\ finished_count' = finished_count + 1
                /\ UNCHANGED <<total, completed, f_buf>>
           ELSE IF result.kind = "int"
           THEN /\ total' = total + result.value
                /\ UNCHANGED <<finished_count, completed, f_buf>>
           ELSE /\ f_buf' = f_buf \o Chunks(Record(result))
                /\ completed' = completed + 1
                /\ UNCHANGED <<finished_count, total>>
    /\ UNCHANGED <<cfg_vars, faults, run, alive, disk_vars, prod_vars, task_queue, work_vars,
                   a_pc, log, hist>>

\* AggExit with the loop left one sentinel early
AggExit_Early ==
    /\ alive
    /\ a_pc = "loop"
    /\ ~(finished_count < num_workers - 1)
    /\ disk' = disk \o f_buf
    /\ f_buf' = <<>>
    /\ a_pc' = "join"
    /\ UNCHANGED <<cfg_vars, faults, run, alive, meta_exists, images, prod_vars, task_queue,
                   report_queue, work_vars, finished_count, total, completed, log, hist>>

\* AggExit that leaves the buffer of f unwritten
AggExit_Unflushed ==
    /\ alive
    /\ a_pc = "loop"
    /\ ~(finished_count < num_workers)
    /\ f_buf' = <<>>
    /\ a_pc' = "join"
    /\ UNCHANGED <<cfg_vars, faults, run, alive, disk_vars, prod_vars, task_queue,
                   report_queue, work_vars, finished_count, total, completed, log, hist>>

\* the loop condition of line 204 fails; leaving the with block closes f,
\* which flushes its buffer
AggExit ==
    /\ alive
    /\ a_pc = "loop"
    /\ ~(finished_count < num_workers)
    /\ disk' = disk \o f_buf
    /\ f_buf' = <<>>
    /\ a_pc' = "join"
    /\ UNCHANGED <<cfg_vars, faults, run, alive, meta_exists, images, prod_vars, task_queue,
                   report_queue, work_vars, finished_count, total, completed, log, hist>>

\* lines 223-225: every process has ended
AggJoin ==
    /\ alive
    /\ a_pc = "join"
    /\ p_pc \in {"done", "dead"}
    /\ \A w \in Workers : w_pc[w] \in {"done", "off"}
    /\ a_pc' = "done"
    /\ UNCHANGED <<cfg_vars, faults, run, alive, disk_vars, prod_vars, task_queue, report_queue,
                   work_vars, finished_count, total, completed, f_buf, log, hist>>

\* ------------------------------------------------------- runs of the command
NewHist(bytes) ==
    [start |-> bytes, failed |-> {}, put |-> <<>>,
     got_none |-> [w \in Workers |-> 0], put_none |-> [w \in Workers |-> 0],
     ok_sess |-> [w \in Workers |-> 0], lost |-> <<>>, got |-> <<>>]

\* the state in which fetch_data starts its processes
Started(n, bytes) ==
    /\ num_workers = n
    /\ alive = TRUE
    /\ p_pc = "load"
    /\ tasks_done = {}
    /\ task_count = 0
    /\ p_oj = 1
    /\ gen = NewGen
    /\ p_sent = 0
    /\ faults = 0
    /\ task_queue = <<>>
    /\ report_queue = [s \in Senders |-> <<>>]
    /\ w_pc = [w \in Workers |-> IF w <= n THEN "launch" ELSE "off"]
    /\ w_loops = [w \in Workers |-> 0]
    /\ w_cur = [w \in Workers |-> NoProblem]
    /\ w_sess = [w \in Workers |-> 0]
    /\ a_pc = "open"
    /\ finished_count = 0
    /\ total = 0
    /\ completed = 0
    /\ f_buf = <<>>
    /\ log = EmptyBag
    /\ hist = NewHist(bytes)

\* the processes are killed: the first flushed chunks of the buffer of f
\* had reached the disk, the rest is gone
Crash(flushed) ==
    /\ alive
    /\ a_pc # "done"
    /\ alive' = FALSE
    /\ flushed \in 0..Len(f_buf)
    /\ disk' = disk \o SubSeq(f_buf, 1, flushed)
    /\ f_buf' = <<>>
    /\ hist' = [hist EXCEPT !.lost = SubSeq(f_buf, flushed + 1, Len(f_buf))]
    /\ UNCHANGED <<cfg_vars, faults, run, meta_exists, images, prod_vars, task_queue,
                   report_queue, work_vars, a_pc, finished_count, total, completed, log>>

RunOver == ~alive \/ a_pc = "done"

\* the command is run again on the same output directory
Rerun ==
    /\ RunOver
    /\ run < MaxRuns
    /\ run' = run + 1
    /\ alive' = TRUE
    /\ p_pc' = "load"
    /\ tasks_done' = {}
    /\ task_count' = 0
    /\ p_oj' = 1
    /\ gen' = NewGen
    /\ p_sent' = 0
    /\ faults' = 0
    /\ task_queue' = <<>>
    /\ report_queue' = [s \in Senders |-> <<>>]
    /\ w_pc' = [w \in Workers |-> IF w <= num_workers THEN "launch" ELSE "off"]
    /\ w_loops' = [w \in Workers |-> 0]
    /\ w_cur' = [w \in Workers |-> NoProblem]
    /\ w_sess' = [w \in Workers |-> 0]
    /\ a_pc' = "open"
    /\ finished_count' = 0
    /\ total' = 0
    /\ completed' = 0
    /\ f_buf' = <<>>
    /\ log' = EmptyBag
    /\ hist' = NewHist(disk)
    /\ UNCHANGED <<cfg_vars, disk_vars>>

\* --------------------------------------------------------- specifications
TheSite ==
    [atcoder |-> << <<"abc001_a", "abc001">> >>,
     codeforces |-> << <<"A", "1">> >>,
     loj |-> << <<"1", None>> >>,
     luogu |-> <<>>,
     accoding |-> <<>>]

Init ==
    /\ site = TheSite
    /\ run = 1
    /\ meta_exists = FALSE
    /\ images = {}
    /\ disk = <<>>
    /\ \E n \in 1..MaxWorkers : Started(n, <<>>)

Producer ==
    \/ ProducerLoad
    \/ \E outcome \in {"none", "ok", "bad"} : AtcoderFetch(outcome)
    \/ \E outcome \in {"none", "ok", "bad"} : CodeforcesFetch(outcome)
    \/ \E outcome \in {"none", "ok", "bad"} : LojFetch(outcome)
    \/ \E oj_name \in {"luogu", "accoding"}, failing \in BOOLEAN, k \in 0..1 :
          CollaboratorFetch(oj_name, failing, k)
    \/ ProducerTask
    \/ ProducerSentinel

Worker(w) ==
    \/ \E ok \in BOOLEAN : WorkerLaunch(w, ok)
    \/ WorkerGet(w)
    \/ WorkerGetError(w)
    \/ \E ok \in BOOLEAN : WorkerProcess(w, ok)

Aggregator ==
    \/ AggOpen
    \/ \E sender \in Senders : AggGet(sender)
    \/ AggExit
    \/ AggJoin

Next ==
    \/ Producer
    \/ \E w \in Workers : Worker(w)
    \/ Aggregator

Spec == Init /\ [][Next]_vars

\* The same run under the scheduling of the operating system: no process
\* that can take a step is held back for ever.
FairSpec ==
    /\ Init
    /\ [][Next]_vars
    /\ WF_vars(Producer)
    /\ \A w \in Workers : WF_vars(Worker(w))
    /\ WF_vars(Aggregator)

\* A site whose AtCoder listing names one problem twice.
DupSite ==
    [atcoder |-> << <<"abc001_a", "abc001">>, <<"abc001_a", "abc001">> >>,
     codeforces |-> << <<"A", "1">> >>,
     loj |-> <<>>,
     luogu |-> <<>>,
     accoding |-> <<>>]

InitDup ==
    /\ site = DupSite
    /\ run = 1
    /\ meta_exists = FALSE
    /\ images = {}
    /\ disk = <<>>
    /\ \E n \in 1..MaxWorkers : Started(n, <<>>)

SpecDup == InitDup /\ [][Next]_vars

\* Runs of the command one after the other on one output directory, each
\* of which may be killed.  The sites answer every request and the browser
\* launches; extraction may fail.
ProducerNominal ==
    \/ ProducerLoad
    \/ AtcoderFetch("ok")
    \/ CodeforcesFetch("ok")
    \/ LojFetch("ok")
    \/ \E oj_name \in {"luogu", "accoding"} :
          CollaboratorFetch(oj_name, FALSE, Len(site[oj_name]))
    \/ ProducerTask
    \/ ProducerSentinel

WorkerNominal(w) ==
    \/ WorkerLaunch(w, TRUE)
    \/ WorkerGet(w)
    \/ \E ok \in BOOLEAN : WorkerProcess(w, ok)

NextRuns ==
    \/ ProducerNominal
    \/ \E w \in Workers : WorkerNominal(w)
    \/ Aggregator
    \/ \E flushed \in 0..Len(f_buf) : Crash(flushed)
    \/ Rerun

InitRuns ==
    /\ site = TheSite
    /\ run = 1
    /\ meta_exists = FALSE
    /\ images = {}
    /\ disk = <<>>
    /\ Started(1, <<>>)

SpecRuns == InitRuns /\ [][NextRuns]_vars

\* The scenario of one worker, one listing that yields three problems and
\* an extractor that fails on the second of them.
ScenarioSite ==
    [atcoder |-> << <<"A", "abc001">>, <<"B", "abc001">>, <<"C", "abc001">> >>,
     codeforces |-> <<>>,
     loj |-> <<>>,
     luogu |-> <<>>,
     accoding |-> <<>>]

ScenarioA == Problem("atcoder", "A", "abc001")
ScenarioB == Problem("atcoder", "B", "abc001")
ScenarioC == Problem("atcoder", "C", "abc001")

InitScenario ==
    /\ site = ScenarioSite
    /\ run = 1
    /\ meta_exists = FALSE
    /\ images = {}
    /\ disk = <<>>
    /\ Started(1, <<>>)

NextScenario ==
    \/ ProducerNominal
    \/ \E w \in Workers : WorkerLaunch(w, TRUE)
    \/ \E w \in Workers : WorkerGet(w)
    \/ \E w \in Workers : WorkerProcess(w, w_cur[w] # ScenarioB)
    \/ Aggregator

SpecScenario == InitScenario /\ [][NextScenario]_vars /\ WF_vars(NextScenario)

\* The producer alone on ledgers that hold records of the tasks of the
\* site and of tasks that differ from them in one field.
LedgerUniverse ==
    << Problem("atcoder", "abc001_a", "abc001"),
       Problem("atcoder", "abc001_a", "abc002"),
       Problem("atcoder", "abc001_a", None),
       Problem("codeforces", "abc001_a", "abc001"),
       Problem("atcoder", "abc001_b", "abc001"),
       Problem("loj", "1", None),
       Problem("loj", "1", "1"),
       Problem("luogu", "1", None) >>

RECURSIVE LedgerOf(_, _)
\* the ledger an earlier run has left with a record of each task of
\* LedgerUniverse whose index is in chosen, from index i on
LedgerOf(chosen, i) ==
    IF i > Len(LedgerUniverse) THEN <<>>
    ELSE (IF i \in chosen
          THEN Chunks(Record(ResultMsg(LedgerUniverse[i],
                                       [run |-> 0, worker |-> 1, session |-> 1, turn |-> i],
                                       format_markdown(LedgerUniverse[i]))))
          ELSE <<>>) \o LedgerOf(chosen, i + 1)

InitLedger ==
    /\ site = TheSite
    /\ run = 1
    /\ meta_exists = TRUE
    /\ images = {}
    /\ \E chosen \in SUBSET (1..Len(LedgerUniverse)) :
          /\ disk = LedgerOf(chosen, 1)
          /\ Started(1, LedgerOf(chosen, 1))

SpecLedger == InitLedger /\ [][ProducerNominal]_vars

\* ------------------------------------------------------------- properties
RECURSIVE SumOver(_, _)
SumOver(f, S) ==
    IF S = {} THEN 0
    ELSE LET x == CHOOSE y \in S : TRUE IN f[x] + SumOver(f, S \ {x})

\* how many messages of a queue are None
Nones(q) == Cardinality({i \in 1..Len(q) : q[i].kind = "None"})

Started_Workers == {w \in Workers : w <= num_workers}

\* C1: at most one worker-finished sentinel is put per worker and at most
\* num_workers in all, the aggregator has counted exactly the sentinels it
\* has taken from the report queue, its count never exceeds num_workers, and
\* the aggregation loop is left only with the count at num_workers.
C1_SentinelCorrectness ==
    /\ \A w \in Workers : hist.put_none[w] <= 1
    /\ \A w \in Workers : hist.put_none[w] = 1 => w \in Started_Workers
    /\ SumOver(hist.put_none, Workers) <= num_workers
    /\ Nones(report_queue[0]) = 0
    /\ alive => finished_count + SumOver([w \in Workers |-> Nones(report_queue[w])], Workers)
                    = SumOver(hist.put_none, Workers)
    /\ finished_count <= num_workers
    /\ a_pc \in {"join", "done"} => finished_count = num_workers
    /\ a_pc \in {"open", "loop"} /\ finished_count = num_workers
          => \A s \in Senders : Nones(report_queue[s]) = 0

C1_Witness ==
    /\ num_workers = 2
    /\ a_pc = "done"
    /\ finished_count = 2
    /\ completed >= 1

LuoguEntries(type, n) == [i \in 1..n |-> <<type \o ToString(1000 + i), type>>]

AccodingEntries(n) ==
    [i \in 1..n |-> <<ToString(100 + i), IF i = 2 THEN "0" ELSE ToString(100 + i)>>]

ListingSites ==
    {[TheSite EXCEPT !["luogu"] = LuoguEntries("P", nP) \o LuoguEntries("B", nB),
                     !["accoding"] = AccodingEntries(nA)] :
        nP \in 0..MaxEntries, nB \in 0..MaxEntries, nA \in 0..MaxEntries + 1}

InitListings ==
    /\ site \in ListingSites
    /\ run = 1
    /\ meta_exists = FALSE
    /\ images = {}
    /\ disk = <<>>
    /\ Started(1, <<>>)

NextListings ==
    \/ ProducerLoad
    \/ AtcoderFetch("ok")
    \/ CodeforcesFetch("ok")
    \/ LojFetch("ok")
    \/ \E outcome \in {"none", "ok", "bad"} : LuoguFetch(outcome)
    \/ \E outcome \in {"none", "ok"} : AccodingFetch(outcome)
    \/ ProducerTask

SpecListings == InitListings /\ [][NextListings]_vars /\ WF_vars(NextListings)

\* ------------------------------------------------- the ledger, for properties
Lines(bytes) == SplitLines(bytes, <<>>)

\* every line is one whole JSON object and the last one ends in a newline
LedgerWellFormed(bytes) ==
    /\ bytes # <<>> => bytes[Len(bytes)].part = 3
    /\ \A i \in 1..Len(Lines(bytes)) : WellFormed(Lines(bytes)[i])

TaskOfRecord(rec) == Problem(rec.oj, rec.problem_id, rec.contest_id)

\* the indices of the lines of the ledger that are records of task
RecordsOf(bytes, task) ==
    {i \in 1..Len(Lines(bytes)) :
        WellFormed(Lines(bytes)[i]) /\ TaskOfRecord(Lines(bytes)[i][1].rec) = task}

LedgerTasks(bytes) ==
    {TaskOfRecord(Lines(bytes)[i][1].rec) :
        i \in {j \in 1..Len(Lines(bytes)) : WellFormed(Lines(bytes)[j])}}

\* every task the listings of the site yield
Corpus ==
    {Problem("atcoder", AtcoderItem(site["atcoder"][i])[1], AtcoderItem(site["atcoder"][i])[2]) :
        i \in 1..Len(site["atcoder"])}
    \cup {Problem("codeforces", CodeforcesItem(site["codeforces"][i])[1],
                  CodeforcesItem(site["codeforces"][i])[2]) : i \in 1..Len(site["codeforces"])}
    \cup {Problem("loj", LojItem(site["loj"][i])[1], LojItem(site["loj"][i])[2]) :
              i \in 1..Len(site["loj"])}
    \cup UNION {{Problem(oj_name, CollaboratorItem(site[oj_name][i])[1],
                         CollaboratorItem(site[oj_name][i])[2]) :
                     i \in 1..Len(site[oj_name])} : oj_name \in {"luogu", "accoding"}}

TasksPut == {i \in 1..Len(hist.put) : hist.put[i] # NoProblem}

\* C3: within one run no task is put on the task queue twice, and when the
\* run has ended no task put in it has more than one record in the ledger,
\* whatever the listings yield.
C3_ExactlyOnce ==
    /\ \A i, j \in TasksPut : i < j => hist.put[i] # hist.put[j]
    /\ a_pc = "done" =>
          \A i \in TasksPut : Cardinality(RecordsOf(disk, hist.put[i])) <= 1

\* C4: in a run that started on a non-empty, well-formed ledger the producer
\* puts no task that has a record in that ledger, every progress delta it
\* puts belongs to a task it has put, and when the ledger covers the whole
\* corpus the task queue is only ever given sentinels, at most num_workers.
C4_Idempotence ==
    (hist.start # <<>> /\ LedgerWellFormed(hist.start) /\ p_pc # "load") =>
        /\ \A i \in TasksPut : hist.put[i] \notin LedgerTasks(hist.start)
        /\ alive => total + Len(report_queue[0]) = Cardinality(TasksPut)
        /\ task_count = Cardinality(TasksPut)
        /\ Corpus \subseteq LedgerTasks(hist.start) =>
              /\ TasksPut = {}
              /\ Len(hist.put) <= num_workers
              /\ report_queue[0] = <<>> /\ total = 0

C4_Witness ==
    /\ run = 2
    /\ hist.start # <<>>
    /\ LedgerWellFormed(hist.start)
    /\ Corpus \subseteq LedgerTasks(hist.start)
    /\ p_pc = "done"
    /\ hist.put = <<NoProblem>>
    /\ a_pc = "done"

\* C5: once the processes have been killed the ledger holds whole,
\* well-formed lines only, and the producer of the next run has loaded every
\* record the ledger held at its start and puts none of their tasks.
C5_CrashTolerance ==
    /\ (~alive /\ LedgerWellFormed(hist.start)) => LedgerWellFormed(disk)
    /\ (run > 1 /\ p_pc # "load") =>
          /\ LedgerTasks(hist.start) \subseteq tasks_done
          /\ \A i \in TasksPut : hist.put[i] \notin LedgerTasks(hist.start)

\* C6: a kill loses at most one of the records the aggregator has consumed
\* and counted as completed.
C6_DurabilityBound ==
    Cardinality({i \in 1..Len(hist.lost) : hist.lost[i].part = 1}) <= 1

\* C7: a session serves at most RESTART_LOOPS turns; after the last of them
\* the worker holds no task and receives nothing until it has launched a
\* session, which happens in one step that takes nothing from and puts
\* nothing on a queue; a task in hand is processed on the session it was
\* received on and yields a record unless its extraction fails, which is
\* logged.
C7_Boundary(w) ==
    /\ hist.ok_sess[w] <= w_loops[w]
    /\ w_loops[w] <= RESTART_LOOPS
    /\ w_pc[w] \in {"get", "process"} => w_loops[w] < RESTART_LOOPS /\ w_sess[w] >= 1
    /\ w_loops[w] = RESTART_LOOPS => w_pc[w] = "launch"
    /\ hist.ok_sess[w] = RESTART_LOOPS => w_pc[w] = "launch" /\ w_cur[w] = NoProblem
    /\ w_pc[w] = "process" <=> w_cur[w] # NoProblem

C7_Refresh(w) ==
    /\ w_sess'[w] # w_sess[w] =>
          /\ w_pc[w] = "launch" /\ w_pc'[w] = "get"
          /\ w_sess'[w] = w_sess[w] + 1
          /\ w_loops'[w] = 0
          /\ task_queue' = task_queue /\ report_queue' = report_queue
    /\ (w_pc[w] = "launch" /\ w_pc'[w] # "launch") => w_sess'[w] = w_sess[w] + 1
    /\ (w_pc[w] = "process" /\ w_pc'[w] # "process") =>
          /\ w_sess'[w] = w_sess[w]
          /\ \/ /\ Len(report_queue'[w]) = Len(report_queue[w]) + 1
                /\ report_queue'[w][Len(report_queue'[w])].kind = "tuple"
                /\ report_queue'[w][Len(report_queue'[w])].task = w_cur[w]
                /\ log' = log
             \/ /\ report_queue' = report_queue
                /\ log' = Logged(LogEntry("process", w_cur[w], w))
    /\ (w_pc[w] = "get" /\ w_pc'[w] = "process") =>
          /\ task_queue # <<>>
          /\ w_cur'[w] = Head(task_queue).task
          /\ task_queue' = Tail(task_queue)

C7_RestartBoundary ==
    /\ [](\A w \in Workers : C7_Boundary(w))
    /\ [][alive' => \A w \in Workers : C7_Refresh(w)]_vars

\* a worker on its second session has yielded the record of the task after
\* the RESTART_LOOPS successful ones of its first session
C7_Witness ==
    \E w \in Workers :
        /\ w_sess[w] = 2
        /\ hist.ok_sess[w] = 1
        /\ faults = 0
        /\ log = EmptyBag
        /\ report_queue[w] # <<>>
        /\ report_queue[w][Len(report_queue[w])].kind = "tuple"

\* C8: the run of the scenario ends, and it ends with a ledger of the
\* records of A and C in that order, one logged extraction error, for B, a
\* total of 3, 2 completed and one worker-finished sentinel counted.
C8_End ==
    a_pc = "done" =>
        /\ LedgerWellFormed(disk)
        /\ Len(Lines(disk)) = 2
        /\ TaskOfRecord(Lines(disk)[1][1].rec) = ScenarioA
        /\ TaskOfRecord(Lines(disk)[2][1].rec) = ScenarioC
        /\ log = SetToBag({LogEntry("process", ScenarioB, 1)})
        /\ total = 3
        /\ completed = 2
        /\ finished_count = 1
        /\ p_pc = "done"
        /\ w_pc[1] = "done"

C8_Scenario == []C8_End /\ <>(a_pc = "done")

\* C9: the run terminates: the aggregator leaves its loop, the producer and
\* every worker end, and the joins return.
C9_CleanShutdown ==
    <>(/\ a_pc = "done"
       /\ p_pc = "done"
       /\ \A w \in Started_Workers : w_pc[w] = "done")

\* C10: when the listing of a judge has failed the failure is in the log,
\* no identifier of that judge is waiting to be enumerated, and the producer
\* is alive to list the judges after it.
C10_ListingFailureIsolated ==
    \A oj_name \in hist.failed :
        /\ \E e \in BagToSet(log) :
              e.what \in {"listing", "listing data"} /\ e.problem.oj = oj_name
        /\ ~(p_pc = "list" /\ Judges[p_oj] = oj_name /\ gen.phase = "yield")
        /\ p_pc # "dead"

\* C11: whatever errors of the handled kinds occur, finitely often, the
\* producer puts its num_workers terminate sentinels, every worker puts its
\* worker-finished sentinel and the aggregator leaves its loop.
C11_NoErrorAborts ==
    <>(/\ p_sent = num_workers
       /\ \A w \in Started_Workers : hist.put_none[w] = 1
       /\ a_pc \in {"join", "done"})

\* C12: when reading the ledger has failed and the failure is logged, the
\* dedup set is empty, and every identifier the listings yield is put on the
\* task queue.
C12_ReadFailureEmptySet ==
    (p_pc # "load" /\ \E e \in BagToSet(log) : e.what = "meta.jsonl") =>
        /\ tasks_done = {}
        /\ p_pc \in {"sentinels", "done"} => Corpus \subseteq {hist.put[i] : i \in TasksPut}

\* how many messages of a queue are of a kind
Count(q, kind) == Cardinality({i \in 1..Len(q) : q[i].kind = kind})

\* how many entries of a kind the log holds
LogCount(what) ==
    SumOver([e \in BagToSet(log) |-> IF e.what = what THEN CopiesIn(e, log) ELSE 0],
            BagToSet(log))

\* the step in which worker w ends a turn on a task without putting a record
ExtractionFails(w) ==
    /\ w_pc[w] = "process"
    /\ w_pc'[w] # "process"
    /\ report_queue'[w] = report_queue[w]

\* what C13 says of such a step, but for the session
C13_Dropped(w) ==
    /\ log' = Logged(LogEntry("process", w_cur[w], w))
    /\ report_queue' = report_queue
    /\ task_queue' = task_queue
    /\ w_cur'[w] = NoProblem
    /\ w_sess'[w] = w_sess[w]

\* every task received is in hand, has yielded one record or is logged as failed
C13_Accounted ==
    Cardinality(TasksPut) - Count(task_queue, "Problem")
        = Cardinality({w \in Workers : w_pc[w] = "process"})
          + completed + SumOver([w \in Workers |-> Count(report_queue[w], "tuple")], Workers)
          + LogCount("process")

PutMsg(i) == IF hist.put[i] = NoProblem THEN NoneMsg ELSE TaskMsg(hist.put[i])

\* the task queue holds, in order, the messages put and not yet received
C14_Queue ==
    /\ Len(hist.got) + Len(task_queue) = Len(hist.put)
    /\ \A i \in 1..Len(task_queue) : task_queue[i] = PutMsg(Len(hist.got) + i)
    /\ \A i \in 1..Len(hist.got) : hist.got[i] \in Started_Workers
    /\ (\A w \in Started_Workers : w_pc[w] = "done") =>
          task_queue = <<>> /\ Len(hist.got) = Len(hist.put)

\* a receipt takes the head of the queue for one worker, and a worker takes
\* a task in hand in no other step
C14_Receipt ==
    /\ Len(hist.got') \in {Len(hist.got), Len(hist.got) + 1}
    /\ Len(hist.got') = Len(hist.got) + 1 =>
          LET w == hist.got'[Len(hist.got')]
              msg == PutMsg(Len(hist.got'))
          IN  /\ w_pc[w] = "get"
              /\ task_queue # <<>> /\ Head(task_queue) = msg
              /\ task_queue' = Tail(task_queue)
              /\ msg.kind = "Problem" => w_cur'[w] = msg.task
              /\ \A v \in Workers \ {w} : w_cur'[v] = w_cur[v]
    /\ \A w \in Workers :
          (w_cur'[w] # w_cur[w] /\ w_cur'[w] # NoProblem) =>
              /\ Len(hist.got') = Len(hist.got) + 1
              /\ hist.got'[Len(hist.got')] = w
    /\ Len(task_queue') < Len(task_queue) => Len(hist.got') = Len(hist.got) + 1

RecordsQueued == SumOver([w \in Workers |-> Count(report_queue[w], "tuple")], Workers)

\* what the run has written to the ledger: in the buffer of f while the
\* aggregator is in its loop, on the disk once f is closed
Written == IF a_pc \in {"open", "loop"} THEN f_buf
           ELSE SubSeq(disk, Len(hist.start) + 1, Len(disk))

\* every successful extraction is one record, queued or written
C15_Conserved ==
    /\ Len(Written) = 3 * completed
    /\ LedgerWellFormed(Written)
    /\ \A i, j \in 1..Len(Lines(Written)) : i # j => Lines(Written)[i] # Lines(Written)[j]
    /\ completed + RecordsQueued
          = Cardinality(TasksPut) - Count(task_queue, "Problem")
            - Cardinality({w \in Workers : w_pc[w] = "process"}) - LogCount("process")
    /\ a_pc \in {"join", "done"} =>
          /\ RecordsQueued = 0
          /\ f_buf = <<>>
          /\ disk = hist.start \o Written
          /\ completed = Cardinality(TasksPut) - LogCount("process")

\* the aggregator takes a record only by appending its line
C15_Appended ==
    RecordsQueued' < RecordsQueued =>
        \E w \in Workers :
            /\ report_queue[w] # <<>>
            /\ Head(report_queue[w]).kind = "tuple"
            /\ report_queue' = [report_queue EXCEPT ![w] = Tail(@)]
            /\ f_buf' = f_buf \o Chunks(Record(Head(report_queue[w])))
            /\ completed' = completed + 1

Suppressed(task, bytes) ==
    \E i \in 1..Len(Lines(bytes)) :
        /\ WellFormed(Lines(bytes)[i])
        /\ Lines(bytes)[i][1].rec.oj = task.oj
        /\ Lines(bytes)[i][1].rec.problem_id = task.problem_id
        /\ Lines(bytes)[i][1].rec.contest_id = task.contest_id

\* C16: the producer skips a listed identifier if and only if the ledger it
\* loaded holds a record equal to it in judge, problem id and contest id: no
\* task put has such a record, and once the listings are exhausted every
\* task of the corpus without one has been put.
C16_FullTripleKey ==
    /\ p_pc # "load" =>
          \A task \in Corpus : task \in tasks_done <=> Suppressed(task, hist.start)
    /\ \A i \in TasksPut : ~Suppressed(hist.put[i], hist.start)
    /\ p_pc \in {"sentinels", "done"} =>
          \A task \in Corpus :
              (\E i \in TasksPut : hist.put[i] = task) <=> ~Suppressed(task, hist.start)

\* the listings are exhausted; a task was put although the ledger has a
\* record that differs from it in the contest id only, and another was
\* skipped
C16_Witness ==
    /\ p_pc = "done"
    /\ \E i \in TasksPut :
          \E j \in 1..Len(Lines(hist.start)) :
              /\ Lines(hist.start)[j][1].rec.oj = hist.put[i].oj
              /\ Lines(hist.start)[j][1].rec.problem_id = hist.put[i].problem_id
              /\ Lines(hist.start)[j][1].rec.contest_id # hist.put[i].contest_id
    /\ \E task \in Corpus : Suppressed(task, hist.start)

\* C17: the ledger always begins with what it held when the run started,
\* and when the run is over it holds after that one well-formed line for
\* each record the aggregator has handled.
C17_AppendOnly ==
    /\ Len(disk) >= Len(hist.start)
    /\ SubSeq(disk, 1, Len(hist.start)) = hist.start
    /\ (~alive \/ a_pc \in {"join", "done"}) =>
          /\ Len(Lines(disk)) = Len(Lines(hist.start)) + completed
          /\ \A i \in (Len(Lines(hist.start)) + 1)..Len(Lines(disk)) :
                WellFormed(Lines(disk)[i])

\* C18: whenever the aggregator has left its loop the producer has listed
\* every judge to its end and put all num_workers terminate sentinels, and
\* every worker has ended with no task in hand and nothing of its own left
\* on the report queue.
C18_ExitOnlyBySentinels ==
    a_pc \in {"join", "done"} =>
        /\ p_pc \in {"sentinels", "done"}
        /\ p_oj = Len(Judges)
        /\ gen = NewGen
        /\ p_sent = num_workers
        /\ Count(task_queue, "Problem") = 0
        /\ \A w \in Started_Workers :
              /\ w_pc[w] = "done"
              /\ w_cur[w] = NoProblem
              /\ report_queue[w] = <<>>

\* the aggregator has left its loop before the producer has returned
C18_Witness ==
    /\ a_pc = "join"
    /\ num_workers = 2
    /\ p_pc = "sentinels"
    /\ completed >= 1

\* a worker without a session holds no task and can always try a launch
C19_Ready ==
    \A w \in Workers :
        w_pc[w] = "launch" =>
            /\ w_cur[w] = NoProblem
            /\ ENABLED WorkerLaunch(w, TRUE)

\* what a worker without a session does in a step
C19_Launching(w) ==
    w_pc[w] = "launch" =>
        /\ w_pc'[w] \in {"launch", "get"}
        /\ w_pc'[w] = "get" => w_sess'[w] = w_sess[w] + 1
        /\ w_cur'[w] = NoProblem
        /\ Len(hist.got') > Len(hist.got) => hist.got'[Len(hist.got')] # w
        /\ Len(report_queue'[w]) <= Len(report_queue[w])
        /\ hist.put_none'[w] = hist.put_none[w]

\* a failure that is neither of the producer nor of a receive is a failed
\* launch: it is logged and leaves the worker where it was
C19_FailureLogged ==
    (faults' > faults /\ <<p_pc, p_oj, gen>>' = <<p_pc, p_oj, gen>> /\ w_loops' = w_loops) =>
        \E w \in Workers :
            /\ w_pc[w] = "launch"
            /\ log' = Logged(LogEntry("launch", NoProblem, w))
            /\ w_pc' = w_pc /\ w_sess' = w_sess
            /\ task_queue' = task_queue /\ report_queue' = report_queue

C20_Last(w) ==
    /\ hist.put_none[w] = hist.got_none[w]
    /\ hist.put_none[w] = 1 <=> w_pc[w] = "done"
    /\ \A i \in 1..Len(report_queue[w]) :
          report_queue[w][i].kind = "None" => i = Len(report_queue[w]) /\ w_pc[w] = "done"
    /\ w_pc[w] = "done" => w_cur[w] = NoProblem

\* the step in which a worker receives a terminate sentinel, and the steps
\* after it has ended
C20_Ends(w) ==
    /\ hist.got_none'[w] # hist.got_none[w] =>
          /\ w_pc[w] = "get" /\ w_pc'[w] = "done"
          /\ Head(task_queue) = NoneMsg /\ task_queue' = Tail(task_queue)
          /\ report_queue' = [report_queue EXCEPT ![w] = Append(@, NoneMsg)]
          /\ hist.put_none'[w] = hist.put_none[w] + 1
    /\ w_pc[w] = "done" =>
          /\ w_pc'[w] = "done"
          /\ Len(report_queue'[w]) <= Len(report_queue[w])
          /\ Len(hist.got') > Len(hist.got) => hist.got'[Len(hist.got')] # w
          /\ w_sess'[w] = w_sess[w] /\ w_loops'[w] = w_loops[w]

\* C20: on receiving the terminate sentinel a worker puts one
\* worker-finished sentinel, behind every record it has put, and ends;
\* from then on it receives nothing and puts nothing.
C20_WorkerTermination ==
    /\ [](\A w \in Workers : C20_Last(w))
    /\ [][alive' => \A w \in Workers : C20_Ends(w)]_vars

\* a worker has ended and its sentinel waits behind a record of its own
C20_Witness ==
    \E w \in Workers :
        /\ w_pc[w] = "done"
        /\ Len(report_queue[w]) >= 2
        /\ report_queue[w][1].kind = "tuple"
        /\ report_queue[w][Len(report_queue[w])].kind = "None"

\* the step in which worker w ends a turn of its session: a task processed,
\* with or without success, or a receive that raised
TurnEnds(w) ==
    \/ w_pc[w] = "process" /\ w_pc'[w] # "process"
    \/ w_pc[w] = "get" /\ log' = Logged(LogEntry("get", NoProblem, w))

C21_Turns(w) ==
    /\ TurnEnds(w) =>
          /\ w_loops'[w] = w_loops[w] + 1
          /\ w_sess'[w] = w_sess[w]
          /\ w_pc'[w] = IF w_loops'[w] = RESTART_LOOPS THEN "launch" ELSE "get"
    /\ w_loops'[w] # w_loops[w] =>
          \/ TurnEnds(w)
          \/ /\ w_pc[w] = "launch" /\ w_pc'[w] = "get"
             /\ w_loops'[w] = 0
             /\ w_sess'[w] = w_sess[w] + 1
    /\ (w_pc[w] = "launch" /\ w_pc'[w] = "get") =>
          /\ task_queue' = task_queue
          /\ hist.got' = hist.got
          /\ w_loops'[w] = 0

\* C21: a session serves at most RESTART_LOOPS turns: every turn, whatever
\* its outcome, counts one; after the RESTART_LOOPS-th the worker receives
\* nothing before it has launched a new session, and launching takes no
\* message from the task queue.
C21_PeriodicRefresh ==
    /\ [](\A w \in Workers :
            /\ w_loops[w] <= RESTART_LOOPS
            /\ w_pc[w] = "get" => w_loops[w] < RESTART_LOOPS)
    /\ [][alive' => \A w \in Workers : C21_Turns(w)]_vars

\* a worker is on its second session after a first one whose turns were
\* not all successful extractions
C21_Witness ==
    \E w \in Workers :
        /\ w_sess[w] = 2
        /\ w_pc[w] = "get"
        /\ CopiesIn(LogEntry("launch", NoProblem, w), log) = 0
        /\ \E e \in BagToSet(log) : e.worker = w /\ e.what \in {"process", "get"}

\* the step in which the receive of worker w raises
ReceiveFails(w) ==
    /\ w_pc[w] = "get"
    /\ log' = Logged(LogEntry("get", NoProblem, w))

\* what C22 says of such a step, but for where the worker goes next
C22_Retained(w) ==
    /\ task_queue' = task_queue
    /\ report_queue' = report_queue
    /\ hist.got' = hist.got
    /\ w_cur' = w_cur
    /\ w_sess' = w_sess
    /\ w_pc'[w] # "done"

\* C22 as amended: a receive that raises takes no message, puts nothing,
\* does not end the worker and does not end the session; it uses up one
\* turn of the session, so the worker receives again on the same session
\* unless the turn was the last of the session, when it launches a new one
\* first.
C22_ReceiveError ==
    [][\A w \in Workers :
          ReceiveFails(w) =>
              /\ C22_Retained(w)
              /\ w_loops'[w] = w_loops[w] + 1
              /\ w_pc'[w] = IF w_loops[w] + 1 < RESTART_LOOPS THEN "get" ELSE "launch"]_vars

\* the receive of a worker has raised on the last turn of its first session
C22_Witness ==
    \E w \in Workers :
        /\ CopiesIn(LogEntry("get", NoProblem, w), log) = 1
        /\ w_pc[w] = "launch"
        /\ w_sess[w] = 1
        /\ w_loops[w] = RESTART_LOOPS
        /\ hist.ok_sess[w] = RESTART_LOOPS - 1

\* C22 as claimed: after a receive that raises the worker is still active
\* on the same session and receives again.
C22_StaysActive ==
    [][\A w \in Workers : ReceiveFails(w) => C22_Retained(w) /\ w_pc'[w] = "get"]_vars

\* how many extraction failures of worker w the log holds
FailuresOf(w) ==
    SumOver([e \in BagToSet(log) |->
                IF e.what = "process" /\ e.worker = w THEN CopiesIn(e, log) ELSE 0],
            BagToSet(log))

\* a failed extraction is one of the turns the session still had, and the
\* worker lives on; a launch gives a session on which nothing has failed
C23_Drop(w) ==
    /\ ExtractionFails(w) =>
          /\ w_loops[w] < RESTART_LOOPS
          /\ w_loops'[w] = w_loops[w] + 1
          /\ FailuresOf(w)' = FailuresOf(w) + 1
          /\ w_pc'[w] \in {"get", "launch"}
          /\ w_pc'[w] = "get" <=> w_loops'[w] < RESTART_LOOPS
    /\ FailuresOf(w)' # FailuresOf(w) => ExtractionFails(w)
    /\ (w_pc[w] = "launch" /\ w_pc'[w] = "get") =>
          /\ w_sess'[w] = w_sess[w] + 1
          /\ w_loops'[w] = 0
          /\ hist.ok_sess'[w] = 0
    /\ (w_pc[w] = "process" /\ w_pc'[w] # "process" /\ ~ExtractionFails(w)) =>
          /\ report_queue'[w] = Append(report_queue[w],
                                        ResultMsg(w_cur[w], ImagePath(w), format_markdown(w_cur[w])))
          /\ ImagePath(w).session = w_sess[w]

\* C23: on one session a worker drops at most RESTART_LOOPS tasks: each
\* failed extraction uses up one of the RESTART_LOOPS turns of the session
\* and never ends the worker, and after the last turn the worker launches a
\* fresh session, on which the tasks it receives next are extracted.
C23_BlastRadius ==
    /\ [](\A w \in Workers :
            /\ w_loops[w] <= RESTART_LOOPS
            /\ FailuresOf(w) <= RESTART_LOOPS * (w_sess[w] + 1)
            /\ w_sess[w] = 1 => FailuresOf(w) <= w_loops[w]
            /\ w_pc[w] = "done" => hist.got_none[w] = 1)
    /\ [][alive' => \A w \in Workers : C23_Drop(w)]_vars

\* every extraction on the first session of a worker has failed, and the
\* task it received after the relaunch has yielded a record
C23_Witness ==
    \E w \in Workers :
        /\ FailuresOf(w) = RESTART_LOOPS
        /\ faults = 0
        /\ w_sess[w] = 2
        /\ hist.ok_sess[w] = 1
        /\ report_queue[w] # <<>>
        /\ report_queue[w][Len(report_queue[w])].kind = "tuple"
        /\ report_queue[w][Len(report_queue[w])].image_path.session = 2

\* the records the run has written, in the order of their lines
WrittenRecords == [i \in 1..Len(Lines(Written)) |-> Lines(Written)[i][1].rec]

\* the place of a task in the enumeration of the producer
PutIndex(task) == CHOOSE j \in 1..Len(hist.put) : hist.put[j] = task

\* the tasks whose extraction has failed
FailedTasks == {e.problem : e \in {x \in BagToSet(log) : x.what = "process"}}

\* the lines of one worker follow the order in which it received the tasks,
\* and with one worker the lines follow the enumeration, less the failures
C24_Order ==
    /\ \A i \in 1..Len(WrittenRecords) :
          /\ \E j \in 1..Len(hist.put) : hist.put[j] = TaskOfRecord(WrittenRecords[i])
          /\ PutIndex(TaskOfRecord(WrittenRecords[i])) <= Len(hist.got)
          /\ hist.got[PutIndex(TaskOfRecord(WrittenRecords[i]))]
                = WrittenRecords[i].image_path.worker
    /\ \A i, k \in 1..Len(WrittenRecords) :
          (i < k /\ WrittenRecords[i].image_path.worker = WrittenRecords[k].image_path.worker) =>
              PutIndex(TaskOfRecord(WrittenRecords[i])) < PutIndex(TaskOfRecord(WrittenRecords[k]))
    /\ num_workers = 1 =>
          /\ \A i, k \in 1..Len(WrittenRecords) :
                i < k => PutIndex(TaskOfRecord(WrittenRecords[i]))
                            < PutIndex(TaskOfRecord(WrittenRecords[k]))
          /\ a_pc \in {"join", "done"} =>
                {TaskOfRecord(WrittenRecords[i]) : i \in 1..Len(WrittenRecords)}
                    = {hist.put[j] : j \in TasksPut} \ FailedTasks

\* the line of a record the aggregator receives goes after every line the
\* run has written before, and closing the file keeps the order
C24_Received ==
    /\ (\E sender \in Senders : /\ report_queue[sender] # <<>>
                                /\ Head(report_queue[sender]).kind = "tuple"
                                /\ report_queue'[sender] = Tail(report_queue[sender])) =>
          \E sender \in Senders :
             /\ report_queue[sender] # <<>>
             /\ report_queue'[sender] = Tail(report_queue[sender])
             /\ Len(WrittenRecords') = Len(WrittenRecords) + 1
             /\ SubSeq(WrittenRecords', 1, Len(WrittenRecords)) = WrittenRecords
             /\ WrittenRecords'[Len(WrittenRecords')] = Record(Head(report_queue[sender]))
    /\ WrittenRecords' # WrittenRecords => report_queue' # report_queue

\* C24: the records of a run are in the ledger in the order in which the
\* aggregator received them; two records of one worker are in the order in
\* which the worker received their tasks; with one worker the records are in
\* the order of the enumeration, the failed tasks left out.
C24_LedgerOrder == []C24_Order /\ [][alive' => C24_Received]_vars

\* a run with one worker has ended: the second of three tasks failed and
\* the ledger holds the first and the third, in that order
C24_Witness ==
    /\ a_pc = "done"
    /\ num_workers = 1
    /\ Cardinality(TasksPut) = 3
    /\ FailedTasks = {hist.put[2]}
    /\ Len(WrittenRecords) = 2
    /\ TaskOfRecord(WrittenRecords[1]) = hist.put[1]
    /\ TaskOfRecord(WrittenRecords[2]) = hist.put[3]

\* while the producer loads nothing has been put or written in the run, and
\* afterwards tasks_done is what the ledger held when the run started
C25_Snapshot ==
    alive =>
      /\ p_pc = "load" =>
            /\ tasks_done = {}
            /\ hist.put = <<>>
            /\ task_queue = <<>>
            /\ report_queue = [s \in Senders |-> <<>>]
            /\ f_buf = <<>>
            /\ completed = 0
            /\ disk = hist.start
      /\ p_pc # "load" =>
            tasks_done = IF hist.start = <<>> /\ run = 1 THEN {} ELSE ReadLedger(hist.start).done

\* within a run tasks_done changes in the load only, and the bytes of the
\* ledger change only by the aggregator's file: when it is closed, or when
\* the processes are killed and a part of its buffer has been written
C25_Writers ==
    /\ (run' = run /\ p_pc # "load") => tasks_done' = tasks_done
    /\ (alive /\ alive' /\ disk' # disk) =>
          /\ run' = run
          /\ a_pc = "loop" /\ a_pc' = "join"
          /\ disk' = disk \o f_buf
          /\ UNCHANGED <<prod_vars, work_vars>>
    /\ (alive /\ ~alive') =>
          \E flushed \in 0..Len(f_buf) : disk' = disk \o SubSeq(f_buf, 1, flushed)
    /\ ~alive => disk' = disk

\* C25: tasks_done is built once from the ledger before the producer puts
\* its first task, so before any record of the run is written; it does not
\* change afterwards, and only the aggregator writes to the ledger.
C25_DedupSnapshot == []C25_Snapshot /\ [][C25_Writers]_vars

\* a second run has ended: it started with one record in the ledger, has
\* added records of its own, and tasks_done is still that one task
C25_Witness ==
    /\ run = 2
    /\ alive
    /\ a_pc = "done"
    /\ Cardinality(tasks_done) = 1
    /\ Len(Lines(disk)) > Len(Lines(hist.start))
    /\ LedgerTasks(disk) # tasks_done

\* the records of the run that are on the report queue
QueuedRecords ==
    UNION {{Record(report_queue[w][i]) :
               i \in {j \in 1..Len(report_queue[w]) : report_queue[w][j].kind = "tuple"}} :
           w \in Workers}

\* every record names a file that exists and no other record names, and
\* when the run is over there are as many files as lines
C26_Files ==
    /\ \A rec \in QueuedRecords : rec.image_path \in images
    /\ \A i \in 1..Len(WrittenRecords) :
          /\ WrittenRecords[i].image_path \in images
          /\ WrittenRecords[i] \notin QueuedRecords
          /\ \A rec \in QueuedRecords : rec.image_path # WrittenRecords[i].image_path
          /\ \A k \in 1..Len(WrittenRecords) :
                i # k => WrittenRecords[i].image_path # WrittenRecords[k].image_path
    /\ \A rec1, rec2 \in QueuedRecords : rec1 # rec2 => rec1.image_path # rec2.image_path
    /\ Cardinality(images) = RecordsQueued + Len(WrittenRecords)
    /\ a_pc \in {"join", "done"} =>
          /\ Cardinality(images) = Len(WrittenRecords)
          /\ Cardinality(images) = completed

\* a file appears only with the put of the record that names it
C26_Saved ==
    /\ images' # images =>
          \E w \in Workers :
             /\ w_pc[w] = "process"
             /\ ImagePath(w) \notin images
             /\ images' = images \cup {ImagePath(w)}
             /\ report_queue'[w] = Append(report_queue[w],
                                          ResultMsg(w_cur[w], ImagePath(w), format_markdown(w_cur[w])))
    /\ RecordsQueued' > RecordsQueued => images' # images

\* C26: a worker saves the image before it puts the record that names it,
\* no two records name the same file, and when a run that was not killed
\* has ended the files are as many as the records it has appended.
C26_OneImagePerTask == []C26_Files /\ [][C26_Saved]_vars

\* a run has ended with two records of the same task, each with a file of
\* its own
C26_Witness ==
    /\ a_pc = "done"
    /\ Cardinality(images) >= 2
    /\ \E i, k \in 1..Len(WrittenRecords) :
          /\ i # k
          /\ TaskOfRecord(WrittenRecords[i]) = TaskOfRecord(WrittenRecords[k])
          /\ WrittenRecords[i].image_path # WrittenRecords[k].image_path
          /\ WrittenRecords[i].image_path.worker = WrittenRecords[k].image_path.worker

\* C27: when the aggregator has left its loop it has taken every progress
\* message of the producer, the total of the bar is the number of tasks
\* the producer has put, and completed is the number of records appended,
\* which is at most the total.
C27_ProgressAtExit ==
    a_pc \in {"join", "done"} =>
        /\ report_queue[0] = <<>>
        /\ total = Cardinality(TasksPut)
        /\ total = task_count
        /\ completed = Len(WrittenRecords)
        /\ completed <= total

\* C28: completed never exceeds total: the aggregator takes no record
\* before it has taken the progress message of the task of the record.
C28_CompletedAtMostTotal ==
    /\ completed <= total
    /\ \A i \in 1..Len(WrittenRecords) :
          total >= Cardinality({j \in TasksPut :
                                   j <= PutIndex(TaskOfRecord(WrittenRecords[i]))})

\* C29: the listing of AcCoding comes to an end: once the producer lists
\* AcCoding, the last judge, it gets to the point where it puts the
\* terminate sentinels, also when a request for a page fails.
C29_ListingsFinite ==
    (p_pc = "list" /\ Judges[p_oj] = "accoding") ~> (p_pc = "sentinels")

\* the tasks of Luogu the producer has put
LuoguPut == {j \in 1..Len(hist.put) : hist.put[j].oj = "luogu"}

\* C30: when the listing of Luogu has ended and no request of it has
\* failed, every problem of both types has been yielded, once: total_num
\* then is the number of entries asked for of the last type alone.
C30_LuoguBothTypes ==
    (p_pc = "list" /\ Judges[p_oj] = "accoding" /\ "luogu" \notin hist.failed) =>
        \A i \in 1..Len(site["luogu"]) :
            Cardinality({j \in LuoguPut :
                            hist.put[j] = Problem("luogu", LuoguItem(site["luogu"][i])[1],
                                                  LuoguItem(site["luogu"][i])[2])}) = 1

====
